---- MODULE Spec2Model ----
(***************************************************************************)
(* Download lifecycle of the media download service, in its two variants:  *)
(* the Flask application (src/app.py) and the FastAPI application          *)
(* (src/main.py).                                                          *)
(*                                                                         *)
(* Strings are sequences of one-character strings, so that str.replace,    *)
(* str.startswith, os.path.join and os.path.basename are computed as       *)
(* Python computes them.  The literal fragments of the format selector are *)
(* never inspected by the program and are kept as single elements.         *)
(* Python's None and a missing dictionary key are the one-element          *)
(* sequences None and Absent, which no string of characters equals.        *)
(***************************************************************************)
EXTENDS Integers, Sequences, FiniteSets, TLC

VARIABLES
    variant,    \* "flask" (src/app.py), "fastapi" (src/main.py) or "both"
    TEMP_DIR,   \* the module-level TEMP_DIR, fixed when the process starts
    fs,         \* the paths at which a file exists
    loop,       \* fastapi: the request whose handler occupies the event loop, or 0
    nextId,     \* the number of uuid4 values drawn so far
    req         \* per request: the handler's locals and its position

vars == <<variant, TEMP_DIR, fs, loop, nextId, req>>

----------------------------------------------------------------------------
(* Bounds *)

\* Number of requests that may be in flight at once.
NReq == 2

\* Longest format list the engine returns in the model.
MaxFormats == 2

Requests == 1..NReq

----------------------------------------------------------------------------
(* Strings *)

None == <<"<None>">>
Absent == <<"<absent>">>
Empty == <<>>

\* Python truthiness of an optional string: None and "" are falsy.
Truthy(s) == s # None /\ s # Absent /\ s # Empty

\* str.replace(old, new), old non-empty: every non-overlapping occurrence,
\* scanning from the left.
RECURSIVE ReplaceAll(_, _, _)
ReplaceAll(s, old, new) ==
    IF Len(s) < Len(old) THEN s
    ELSE IF SubSeq(s, 1, Len(old)) = old
         THEN new \o ReplaceAll(SubSeq(s, Len(old) + 1, Len(s)), old, new)
         ELSE <<Head(s)>> \o ReplaceAll(Tail(s), old, new)

\* str.startswith(prefix)
StartsWith(s, prefix) ==
    Len(s) >= Len(prefix) /\ SubSeq(s, 1, Len(prefix)) = prefix

\* `sub in s`
Contains(s, sub) ==
    \E i \in 0..(Len(s) - Len(sub)) : SubSeq(s, i + 1, i + Len(sub)) = sub

\* str.lower(), on the letters of the messages of the model
UpperCase == <<"B", "E", "G", "N", "O", "R", "S", "T">>
LowerCase == <<"b", "e", "g", "n", "o", "r", "s", "t">>
LowerChar(c) ==
    IF \E i \in 1..Len(UpperCase) : UpperCase[i] = c
    THEN LowerCase[CHOOSE i \in 1..Len(UpperCase) : UpperCase[i] = c]
    ELSE c
Lower(s) == [i \in 1..Len(s) |-> LowerChar(s[i])]

Slash == <<"/">>
Backslash == <<"\\">>
Underscore == <<"_">>
Mp4 == <<".", "m", "p", "4">>
Mp3 == <<".", "m", "p", "3">>
Audio == <<"a", "u", "d", "i", "o">>
Media == <<"m", "e", "d", "i", "a">>
AudioOnly == <<"a", "u", "d", "i", "o", " ", "o", "n", "l", "y">>

\* os.path.join(directory, name) for a relative name
PathJoin(directory, name) == directory \o Slash \o name

\* os.path.basename(path): what follows the last separator
RECURSIVE Basename(_)
Basename(path) ==
    IF \E i \in 1..Len(path) : path[i] = "/"
    THEN Basename(Tail(path))
    ELSE path

----------------------------------------------------------------------------
(* The process-wide temp directory and the unique-id source *)

\* os.path.join(os.path.dirname(__file__), 'temp') for two places the
\* application may be installed in: /s and /v.mp4
TempDirs ==
    { <<"/", "s", "/", "t", "e", "m", "p">>,
      <<"/", "v", ".", "m", "p", "4", "/", "t", "e", "m", "p">> }

\* str(uuid.uuid4()): hexadecimal digits and dashes only.  The n-th draw is
\* modelled as a value no earlier draw returned (uuid4 is random; a repeat
\* has probability about 2^-122 and is not modelled).
HexDigits == <<"0", "1", "2", "3", "4", "5", "6", "7", "8", "9", "a", "b", "c", "d", "e", "f">>
uuid4(n) == <<HexDigits[((n \div 16) % 16) + 1], "-", HexDigits[(n % 16) + 1]>>

\* A name that does not follow the draw.
temp_filename_fixed(n) == uuid4(0) \o Mp4

\* temp_filename = f"{uuid.uuid4()}.mp4"
temp_filename(n) == uuid4(n) \o Mp4

----------------------------------------------------------------------------
(* The handlers' computations *)

\* dict.get(key): a missing key reads as None
DictGet(v) == IF v = Absent THEN None ELSE v

\* dict.get(key, default): only a missing key reads as the default
DictGetDefault(v, default) == IF v = Absent THEN default ELSE v

\* A check that lets the empty url through.
url_rejected_missing_only(url) == url = Absent

\* `if not url`: the request is rejected
url_rejected(url) == ~Truthy(url)

\* The status of a rejected request: FastAPI refuses a request without the
\* required url itself (422), the handlers answer 400.
rejected_status(v, url) == IF v = "fastapi" /\ url = Absent THEN 422 ELSE 400

\* The selector with the audio rule checked after the height rule.
format_string_height_first(quality) ==
    IF Truthy(quality)
    THEN <<"bestvideo[height<=">> \o ReplaceAll(quality, <<"p">>, Empty)
             \o <<"]+bestaudio/bestvideo+bestaudio/best">>
    ELSE IF quality = Audio THEN <<"bestaudio/best">>
         ELSE <<"bestvideo+bestaudio/best">>

\* The format selector built from quality.
format_string(quality) ==
    IF quality = Audio
    THEN <<"bestaudio/best">>
    ELSE IF Truthy(quality)
         THEN <<"bestvideo[height<=">> \o ReplaceAll(quality, <<"p">>, Empty)
                  \o <<"]+bestaudio/bestvideo+bestaudio/best">>
         ELSE <<"bestvideo+bestaudio/best">>

\* temp_filepath after the engine call returned.
rewritten_filepath(temp_filepath, quality) ==
    IF quality = Audio THEN ReplaceAll(temp_filepath, Mp4, Mp3) ELSE temp_filepath

\* mp3_path of the failure handler.
mp3_path(temp_filepath) == ReplaceAll(temp_filepath, Mp4, Mp3)

\* info.get('title', 'media'): None when the key is there and holds None.
info_title(title) == DictGetDefault(title, Media)

\* A sanitizer that forgets the backslash.
sanitized_title_slash_only(title) == ReplaceAll(title, Slash, Underscore)

\* .replace('/', '_').replace('\\', '_') of a string.
sanitized_title(title) ==
    ReplaceAll(ReplaceAll(title, Slash, Underscore), Backslash, Underscore)

\* final_filename
final_filename(title, quality) ==
    sanitized_title(title) \o (IF quality = Audio THEN Mp3 ELSE Mp4)

\* The path the response reads the file from: FileResponse(path=temp_filepath),
\* send_from_directory(TEMP_DIR, os.path.basename(temp_filepath)).
served_path(v, dir, temp_filepath) ==
    IF v = "fastapi" THEN temp_filepath ELSE PathJoin(dir, Basename(temp_filepath))

\* A cleanup that never reaches os.remove.
cleanup_never_removes(v, path, files) == FALSE

\* cleanup_file's guard (fastapi): os.remove is called only on a path that
\* exists; the Flask cleanup calls os.remove unguarded.
cleanup_calls_remove(v, path, files) == v = "flask" \/ path \in files

\* The fixed parts of the error texts.
SignIn == <<"Sign in to confirm you're not a bot">>
Bot == <<"b", "o", "t">>
CookieHelp == <<"YouTube requires authentication. ... Original error: ">>
DownloadFailed == <<"Failed to process the video">>
InfoFailed == <<"Failed to fetch video information">>

\* main.py: the message is wrapped in the cookie guidance when it mentions
\* a bot; app.py reports str(e) as it is.
cookie_help(v, error_msg) ==
    IF v = "fastapi"
       /\ (Contains(error_msg, SignIn) \/ Contains(Lower(error_msg), Bot))
    THEN CookieHelp \o error_msg
    ELSE error_msg

\* The text of the error response of a download: main.py's detail, app.py's
\* "error" and "details".
download_error_text(v, error_msg) ==
    DownloadFailed \o cookie_help(v, error_msg)

\* An error response of an info request without the message.
info_error_text_fixed(v, error_msg) == InfoFailed

\* The text of the error response of an info request.
info_error_text(v, error_msg) == InfoFailed \o cookie_help(v, error_msg)

\* The response of the server when an exception leaves a handler.
InternalServerError == <<"Internal Server Error">>

----------------------------------------------------------------------------
(* The engine (yt-dlp), as far as the handlers depend on it *)

\* With the FFmpegExtractAudio postprocessor (preferredcodec mp3) the engine
\* leaves its result beside the downloaded file, the file's own extension
\* replaced by .mp3, and removes the downloaded file.
EngineAudioPath(outtmpl) == SubSeq(outtmpl, 1, Len(outtmpl) - Len(Mp4)) \o Mp3

\* The file a successful download leaves.
EngineOutput(outtmpl, quality) ==
    IF quality = Audio THEN EngineAudioPath(outtmpl) ELSE outtmpl

\* The files a failed download may leave: any of the files it writes.
EngineLeftovers(outtmpl, quality) ==
    SUBSET (IF quality = Audio THEN {outtmpl, EngineAudioPath(outtmpl)} ELSE {outtmpl})

\* The two files a request's engine call may write in the temp directory.
CandidatePaths(path) == {path, EngineAudioPath(path)}

----------------------------------------------------------------------------
(* /info: the projection of the engine's format list *)

\* One public entry: each field read with f.get, format_note renamed note.
VideoFormat(f) ==
    [format_id |-> DictGet(f.format_id), ext |-> DictGet(f.ext),
     resolution |-> DictGet(f.resolution), note |-> DictGet(f.format_note),
     filesize |-> DictGet(f.filesize)]

\* The filter of the list comprehension: "keep", "drop", or "raise" when
\* evaluating it raises AttributeError (None has no startswith).
\* app.py:   f.get('resolution') or f.get('format_note', '').startswith('audio only')
\* main.py:  f.get('resolution') or (f.get('format_note')
\*               and f.get('format_note', '').startswith('audio only'))
format_filter(v, f) ==
    IF Truthy(DictGet(f.resolution)) THEN "keep"
    ELSE IF v = "fastapi" /\ ~Truthy(DictGet(f.format_note)) THEN "drop"
    ELSE LET note == DictGetDefault(f.format_note, Empty)
         IN  IF note = None THEN "raise"
             ELSE IF StartsWith(note, AudioOnly) THEN "keep" ELSE "drop"

\* The comprehension over formats: raised, or the entries kept, in order.
video_formats(v, formats) ==
    LET Kept(f) == format_filter(v, f) = "keep"
        kept == SelectSeq(formats, Kept)
    IN  [raised |-> \E i \in 1..Len(formats) : format_filter(v, formats[i]) = "raise",
         formats |-> [i \in 1..Len(kept) |-> VideoFormat(kept[i])]]

----------------------------------------------------------------------------
(* Inputs *)

Url == <<"U">>

Url2 == <<"V">>

\* The url of a request in the concurrent model: missing, empty, or given.
Urls == {Absent, Empty, Url}

Q720p == <<"7", "2", "0", "p">>
Q1080p == <<"1", "0", "8", "0", "p">>
Q720p60 == <<"7", "2", "0", "p", "6", "0">>

\* The quality of a request in the concurrent model: audio or a height tag.
Qualities == {Audio, Q720p}

\* The title in the engine's metadata in the concurrent model: None or a
\* string.
Titles == {None, <<"a", "/", "b">>}

\* str(e) of what the engine raises: a message without "bot", one with it
\* in another case, and the one main.py names.
PlainMsg == <<"E", "R", "R", "O", "R", ":", " ", "g", "o", "n", "e">>
BotMsg == <<"n", "o", "t", " ", "a", " ", "B", "o", "t", "?">>
SignInMsg == <<"x", ":", " ">> \o SignIn

\* The engine's failure in the concurrent model.
Messages == {BotMsg}

\* str(e) of the AttributeError of None.replace, and of the error of
\* send_from_directory.
AttributeErrorMsg == <<"'NoneType' object has no attribute 'replace'">>
OpenErrorMsg == <<"404 Not Found">>

----------------------------------------------------------------------------
(* State *)

\* A request before it arrives.
InitReq ==
    [pc |-> "idle", kind |-> "none", url |-> Absent, quality |-> None,
     alloc |-> None, temp_filepath |-> None, format_string |-> None,
     title |-> Absent, final_filename |-> None, registered |-> FALSE,
     served |-> None, status |-> 0, result |-> "none",
     delivered |-> FALSE, disconnected |-> FALSE,
     engineCalls |-> 0, engineOk |-> FALSE,
     removeCalls |-> 0, removeFault |-> FALSE, touched |-> {},
     metadata |-> <<>>, formats |-> <<>>,
     error_msg |-> None, left |-> {}, openFault |-> FALSE, text |-> Empty]

Init ==
    /\ variant \in {"flask", "fastapi"}
    /\ TEMP_DIR \in TempDirs
    /\ fs = {}
    /\ loop = 0
    /\ nextId = 0
    /\ req = [r \in Requests |-> InitReq]

\* The variant that serves request r.  With both servers started from the
\* one checkout they share the temp directory; the odd requests are then
\* those sent to app.py and the even ones those sent to main.py.
V(r) ==
    IF variant = "both"
    THEN IF r % 2 = 1 THEN "flask" ELSE "fastapi"
    ELSE variant

\* fastapi: a handler is an `async def` without an await, so it runs on the
\* event loop from its first line to its return and nothing else the loop
\* serves runs meanwhile.  flask: the development server handles each
\* request on a thread of its own.
LoopFree(r) == V(r) = "flask" \/ loop = 0
LoopTaken(r) == IF V(r) = "fastapi" THEN r ELSE loop
LoopReleased(r) == IF V(r) = "fastapi" THEN 0 ELSE loop

\* Requests are numbered in the order in which they arrive.
Arrives(r) ==
    /\ req[r].pc = "idle"
    /\ IF r = 1 THEN TRUE ELSE req[r - 1].pc # "idle"

\* Where a request goes when its handler has produced an error response:
\* Flask still runs the functions registered with after_this_request,
\* FastAPI runs background tasks only of the response the handler returned.
after_error(v, registered) ==
    IF v = "flask" /\ registered THEN "after_request" ELSE "done"

\* Where a request goes when its file response has been transferred or
\* abandoned: FastAPI then runs the background tasks.
after_transfer(v) == IF v = "fastapi" THEN "background" ELSE "done"

----------------------------------------------------------------------------
(* GET /download *)

\* The handler up to the engine call: validation, the temp path, the format
\* selector, the options.
download_begin(r, urls, quals) ==
    /\ Arrives(r)
    /\ LoopFree(r)
    /\ \E url \in urls, quality \in quals :
         IF url_rejected(url)
         THEN /\ req' = [req EXCEPT ![r] =
                    [@ EXCEPT !.pc = "done", !.kind = "download", !.url = url,
                              !.status = rejected_status(V(r), url),
                              !.result = "validation"]]
              /\ UNCHANGED <<variant, TEMP_DIR, fs, loop, nextId>>
         ELSE LET path == PathJoin(TEMP_DIR, temp_filename(nextId))
              IN  /\ req' = [req EXCEPT ![r] =
                        [@ EXCEPT !.pc = "engine", !.kind = "download",
                                  !.url = url, !.quality = quality,
                                  !.alloc = path, !.temp_filepath = path,
                                  !.format_string = format_string(quality),
                                  !.engineCalls = @ + 1]]
                  /\ nextId' = nextId + 1
                  /\ loop' = LoopTaken(r)
                  /\ UNCHANGED <<variant, TEMP_DIR, fs>>

\* ydl.extract_info(url, download=True) returns: the file is written, the
\* tracked path rewritten for audio, the filename derived and the cleanup
\* registered; a title of None raises AttributeError in .replace.
engine_success(r, titles) ==
    /\ req[r].pc = "engine"
    /\ \E title \in titles :
         LET q == req[r].quality
             tracked == rewritten_filepath(req[r].temp_filepath, q)
             t == info_title(title)
         IN  /\ fs' = fs \cup {EngineOutput(req[r].alloc, q)}
             /\ req' = [req EXCEPT ![r] =
                   IF t = None
                   THEN [@ EXCEPT !.pc = "except", !.engineOk = TRUE,
                                  !.title = title, !.temp_filepath = tracked,
                                  !.error_msg = AttributeErrorMsg]
                   ELSE [@ EXCEPT !.pc = "respond", !.engineOk = TRUE,
                                  !.title = title, !.temp_filepath = tracked,
                                  !.final_filename = final_filename(t, q),
                                  !.registered = TRUE]]
    /\ UNCHANGED <<variant, TEMP_DIR, loop, nextId>>

\* ydl.extract_info raises: whatever the engine wrote so far stays.
engine_failure(r, msgs) ==
    /\ req[r].pc = "engine"
    /\ \E left \in EngineLeftovers(req[r].alloc, req[r].quality), e \in msgs :
         /\ fs' = fs \cup left
         /\ req' = [req EXCEPT ![r] =
               [@ EXCEPT !.pc = "except", !.error_msg = e, !.left = left]]
    /\ UNCHANGED <<variant, TEMP_DIR, loop, nextId>>

\* The response is built and the handler returns.  FileResponse(...) does
\* not touch the file yet; send_from_directory opens it, which fails when
\* the file is not there (NotFound) or cannot be opened (OSError).
respond(r) ==
    /\ req[r].pc = "respond"
    /\ LET p == served_path(V(r), TEMP_DIR, req[r].temp_filepath)
       IN  IF V(r) = "fastapi"
           THEN /\ req' = [req EXCEPT ![r] =
                      [@ EXCEPT !.pc = "sending", !.status = 200,
                                !.result = "file", !.served = p]]
                /\ loop' = LoopReleased(r)
           ELSE /\ \E opened \in (IF p \in fs THEN BOOLEAN ELSE {FALSE}) :
                     req' = [req EXCEPT ![r] =
                        IF opened
                        THEN [@ EXCEPT !.pc = "after_request", !.status = 200,
                                       !.result = "file", !.served = p,
                                       !.touched = @ \cup {p}]
                        ELSE [@ EXCEPT !.pc = "except",
                                       !.openFault = TRUE,
                                       !.error_msg = OpenErrorMsg,
                                       !.touched = @ \cup {p}]]
                /\ loop' = loop
    /\ UNCHANGED <<variant, TEMP_DIR, fs, nextId>>

\* except: `if os.path.exists(temp_filepath): os.remove(temp_filepath)`.
\* os.remove may itself fail (OSError); nothing catches it here, so it
\* leaves the handler.
except_remove_tracked(r) ==
    /\ req[r].pc = "except"
    /\ LET p == req[r].temp_filepath
       IN  IF p \in fs
           THEN \E removed \in BOOLEAN :
                  IF removed
                  THEN /\ fs' = fs \ {p}
                       /\ req' = [req EXCEPT ![r] =
                             [@ EXCEPT !.pc = "except_mp3",
                                       !.removeCalls = @ + 1,
                                       !.touched = @ \cup {p}]]
                       /\ loop' = loop
                  ELSE /\ fs' = fs
                       /\ req' = [req EXCEPT ![r] =
                             [@ EXCEPT !.pc = after_error(V(r), req[r].registered),
                                       !.removeCalls = @ + 1,
                                       !.removeFault = TRUE,
                                       !.touched = @ \cup {p},
                                       !.status = 500,
                                       !.result = "unhandled",
                                       !.text = InternalServerError]]
                       /\ loop' = LoopReleased(r)
           ELSE /\ fs' = fs
                /\ req' = [req EXCEPT ![r] = [@ EXCEPT !.pc = "except_mp3"]]
                /\ loop' = loop
    /\ UNCHANGED <<variant, TEMP_DIR, nextId>>

\* except: mp3_path = temp_filepath.replace('.mp4', '.mp3'), removed if it
\* exists; then the error response (500).
except_remove_mp3(r) ==
    /\ req[r].pc = "except_mp3"
    /\ LET p == mp3_path(req[r].temp_filepath)
       IN  IF p \in fs
           THEN \E removed \in BOOLEAN :
                  /\ fs' = IF removed THEN fs \ {p} ELSE fs
                  /\ req' = [req EXCEPT ![r] =
                        [@ EXCEPT !.pc = after_error(V(r), req[r].registered),
                                  !.removeCalls = @ + 1,
                                  !.removeFault = @ \/ ~removed,
                                  !.touched = @ \cup {p},
                                  !.status = 500,
                                  !.result = IF removed THEN "processing"
                                             ELSE "unhandled",
                                  !.text = IF removed
                                           THEN download_error_text(
                                                    V(r), req[r].error_msg)
                                           ELSE InternalServerError]]
           ELSE /\ fs' = fs
                /\ req' = [req EXCEPT ![r] =
                      [@ EXCEPT !.pc = after_error(V(r), req[r].registered),
                                !.status = 500, !.result = "processing",
                                !.text = download_error_text(
                                             V(r), req[r].error_msg)]]
    /\ loop' = LoopReleased(r)
    /\ UNCHANGED <<variant, TEMP_DIR, nextId>>

\* The cleanup of a request: app.py's cleanup(response), run by Flask when
\* the handler has returned and before the response is transferred;
\* main.py's cleanup_file(temp_filepath), run by FastAPI as a background
\* task when the transfer is over.  A failure of os.remove is logged only.
cleanup(r) ==
    /\ req[r].pc = IF V(r) = "flask" THEN "after_request" ELSE "background"
    /\ LET p == req[r].temp_filepath
           next == IF V(r) = "flask" /\ req[r].status = 200
                   THEN "sending" ELSE "done"
       IN  IF cleanup_calls_remove(V(r), p, fs)
           THEN \E removed \in (IF p \in fs THEN BOOLEAN ELSE {FALSE}) :
                  /\ fs' = IF removed THEN fs \ {p} ELSE fs
                  /\ req' = [req EXCEPT ![r] =
                        [@ EXCEPT !.pc = next,
                                  !.removeCalls = @ + 1,
                                  !.removeFault = @ \/ (p \in fs /\ ~removed),
                                  !.touched = @ \cup {p}]]
           ELSE /\ fs' = fs
                /\ req' = [req EXCEPT ![r] = [@ EXCEPT !.pc = next]]
    /\ UNCHANGED <<variant, TEMP_DIR, loop, nextId>>

\* The transfer of the file response.  FileResponse stats its path first and
\* raises RuntimeError when no file is there (no background task runs then);
\* Flask streams from the file it opened.  The client reads the whole body
\* or disconnects on the way; under uvicorn a send to a disconnected client
\* is dropped without an error, so the response runs to its end either way.
transfer(r) ==
    /\ req[r].pc = "sending"
    /\ LoopFree(r)
    /\ IF V(r) = "fastapi" /\ req[r].served \notin fs
       THEN req' = [req EXCEPT ![r] =
               [@ EXCEPT !.pc = "done", !.status = 500, !.result = "unhandled",
                         !.text = InternalServerError,
                         !.touched = @ \cup {req[r].served}]]
       ELSE \E complete \in BOOLEAN :
               req' = [req EXCEPT ![r] =
                  [@ EXCEPT !.pc = after_transfer(V(r)),
                            !.delivered = complete,
                            !.disconnected = ~complete,
                            !.touched = @ \cup {req[r].served}]]
    /\ UNCHANGED <<variant, TEMP_DIR, fs, loop, nextId>>

----------------------------------------------------------------------------
(* POST /info *)

\* One entry of the engine's format list; every field may be missing (Absent)
\* or None.
Resolutions == {Absent, None, Q720p}
Notes == {Absent, None, AudioOnly \o <<",", "l", "o", "w">>, <<"s", "b">>}
FormatIds == {None, <<"1", "8">>}

FormatEntries ==
    [format_id : FormatIds, ext : {Mp4}, resolution : Resolutions,
     format_note : Notes, filesize : {Absent}]

\* The lists of at most n entries.
ListsUpTo(S, n) == UNION {[1..k -> S] : k \in 0..n}

\* The lists the engine returns in the concurrent model: the one of the
\* spec's example, and one with a None note.
ExampleFormats ==
    { <<[format_id |-> None, ext |-> Mp4, resolution |-> Q720p,
         format_note |-> Absent, filesize |-> Absent],
        [format_id |-> None, ext |-> Mp4, resolution |-> None,
         format_note |-> AudioOnly \o <<",", "l", "o", "w">>, filesize |-> Absent],
        [format_id |-> None, ext |-> Mp4, resolution |-> None,
         format_note |-> <<"s", "b">>, filesize |-> Absent]>>,
      <<[format_id |-> None, ext |-> Mp4, resolution |-> None,
         format_note |-> None, filesize |-> Absent]>> }

\* The handler up to the engine call.
info_begin(r, urls) ==
    /\ Arrives(r)
    /\ LoopFree(r)
    /\ \E url \in urls :
         IF url_rejected(url)
         THEN /\ req' = [req EXCEPT ![r] =
                    [@ EXCEPT !.pc = "done", !.kind = "info", !.url = url,
                              !.status = rejected_status(V(r), url),
                              !.result = "validation"]]
              /\ loop' = loop
         ELSE /\ req' = [req EXCEPT ![r] =
                    [@ EXCEPT !.pc = "info_engine", !.kind = "info",
                              !.url = url, !.engineCalls = @ + 1]]
              /\ loop' = LoopTaken(r)
    /\ UNCHANGED <<variant, TEMP_DIR, fs, nextId>>

\* ydl.extract_info(url, download=False) returns metadata: the formats are
\* projected; an exception of the projection is answered like an engine
\* failure.
info_success(r, lists) ==
    /\ req[r].pc = "info_engine"
    /\ \E formats \in lists :
         LET projected == video_formats(V(r), formats)
         IN  req' = [req EXCEPT ![r] =
                IF projected.raised
                THEN [@ EXCEPT !.pc = "done", !.engineOk = TRUE,
                               !.metadata = formats,
                               !.error_msg = AttributeErrorMsg,
                               !.status = 500, !.result = "processing",
                               !.text = info_error_text(V(r), AttributeErrorMsg)]
                ELSE [@ EXCEPT !.pc = "done", !.engineOk = TRUE,
                               !.metadata = formats,
                               !.status = 200, !.result = "info",
                               !.formats = projected.formats]]
    /\ loop' = LoopReleased(r)
    /\ UNCHANGED <<variant, TEMP_DIR, fs, nextId>>

\* ydl.extract_info raises.
info_failure(r, msgs) ==
    /\ req[r].pc = "info_engine"
    /\ \E e \in msgs :
         req' = [req EXCEPT ![r] =
            [@ EXCEPT !.pc = "done", !.error_msg = e,
                      !.status = 500, !.result = "processing",
                      !.text = info_error_text(V(r), e)]]
    /\ loop' = LoopReleased(r)
    /\ UNCHANGED <<variant, TEMP_DIR, fs, nextId>>

----------------------------------------------------------------------------
(* Specifications *)

\* The steps of the requests rs, their inputs drawn from the given sets.
NextFor(rs, urls, quals, titles, lists, msgs) ==
    \E r \in rs :
        \/ download_begin(r, urls, quals)
        \/ engine_success(r, titles)
        \/ engine_failure(r, msgs)
        \/ respond(r)
        \/ except_remove_tracked(r)
        \/ except_remove_mp3(r)
        \/ cleanup(r)
        \/ transfer(r)
        \/ info_begin(r, urls)
        \/ info_success(r, lists)
        \/ info_failure(r, msgs)

\* Concurrent requests.
Next == NextFor(Requests, Urls, Qualities, Titles, ExampleFormats, Messages)

Spec == Init /\ [][Next]_vars

\* Two requests with either failure message, sent to one variant or one to
\* each.
InitPair ==
    /\ variant \in {"flask", "fastapi", "both"}
    /\ TEMP_DIR \in TempDirs
    /\ fs = {}
    /\ loop = 0
    /\ nextId = 0
    /\ req = [r \in Requests |-> InitReq]

NextPair ==
    NextFor(Requests, Urls, Qualities, Titles, ExampleFormats,
            {PlainMsg, BotMsg})

SpecPair == InitPair /\ [][NextPair]_vars

\* One request at a time, over the wider inputs of the handlers'
\* computations.
QualitiesFn == {None, Empty, Audio, Q720p, Q1080p, Q720p60}

TitlesFn ==
    { Absent, None, Empty, <<"a">>,
      <<"M", "y", "/", "C", "o", "o", "l", "\\", "S", "o", "n", "g">>,
      <<"/", "/", "\\", "\\">>, <<"_", ".", "m", "p", "4">> }

UrlsFn == {Absent, Empty, Url, Url2}

MessagesFn ==
    { PlainMsg, BotMsg, <<"b", "o", "t">>, <<"R", "O", "B", "O", "T", "S">>,
      <<"b", "o", " ", "t">>, SignInMsg }

NextFn ==
    NextFor({1}, UrlsFn, QualitiesFn, TitlesFn,
            ListsUpTo(FormatEntries, MaxFormats), MessagesFn)

SpecFn == Init /\ [][NextFn]_vars

----------------------------------------------------------------------------
(* Properties *)

Done(r) == req[r].pc = "done"

\* A download request that passed validation.
Accepted(r) == req[r].kind = "download" /\ req[r].alloc # None

\* Some file of the request is left in the temp directory.
Leaked(r) == CandidatePaths(req[r].alloc) \cap fs # {}

\* C1: after a successful download (the engine call succeeded and the file
\* response was sent in full) no file of the request is left in the temp
\* directory.  Stated for requests none of whose os.remove calls failed on
\* an existing file, so that a violation is the handler's own doing.
C1_NoLeakAfterSuccess ==
    \A r \in Requests :
        (Done(r) /\ Accepted(r) /\ req[r].result = "file" /\ req[r].delivered
            /\ ~req[r].removeFault)
        => ~Leaked(r)

\* C2: when the handler of a failed download has returned its error, neither
\* the .mp4 nor the .mp3 candidate path of the request exists.  Stated for
\* requests none of whose os.remove calls failed on an existing file.
C2_NoOrphanAfterFailure ==
    \A r \in Requests :
        (Accepted(r) /\ req[r].result = "processing" /\ ~req[r].removeFault)
        => ~Leaked(r)

\* C3: when the client disconnected during the transfer, the request's
\* artifact is gone once the request is over.  Stated for requests none of
\* whose os.remove calls failed on an existing file.
C3_DisconnectStillCleans ==
    \A r \in Requests :
        (Done(r) /\ Accepted(r) /\ req[r].disconnected /\ ~req[r].removeFault)
        => ~Leaked(r)

C5_NoInterference ==
    \A r, s \in Requests :
        (r # s /\ Accepted(r) /\ Accepted(s))
        => /\ req[r].alloc # req[s].alloc
           /\ req[r].touched \cap
                (CandidatePaths(req[s].alloc) \cup {req[s].temp_filepath}) = {}

\* Two downloads are in flight at once and both have touched their files.
C5_Witness ==
    \E r, s \in Requests :
        /\ r # s
        /\ Accepted(r) /\ ~Done(r) /\ req[r].touched # {}
        /\ Accepted(s) /\ ~Done(s) /\ req[s].touched # {}

\* C6: while a request is inside the engine call, the next request can be
\* accepted and a response under transfer can go on.
C6_EngineDoesNotBlockOthers ==
    \A r, s \in Requests :
        (r # s /\ req[r].pc \in {"engine", "info_engine"})
        => /\ Arrives(s) => ENABLED (download_begin(s, Urls, Qualities) \/ info_begin(s, Urls))
           /\ req[s].pc = "sending" => ENABLED transfer(s)

\* C7: a request whose url is missing or empty ends at once with a client
\* error; no path is allocated, no id drawn, the engine is not called and
\* the temp directory is as it was.
C7_RejectedBeforeAnything ==
    [][\A r \in Requests :
          (req[r].pc = "idle" /\ req'[r].pc # "idle" /\ req'[r].url \in {Absent, Empty})
          => /\ req'[r].pc = "done"
             /\ req'[r].status \in {400, 422}
             /\ req'[r].result = "validation"
             /\ req'[r].alloc = None
             /\ req'[r].engineCalls = 0
             /\ req'[r].touched = {}
             /\ fs' = fs
             /\ nextId' = nextId]_vars

\* A download with an empty url was rejected while files of another request
\* were in the temp directory.
C7_Witness ==
    \E r \in Requests :
        /\ req[r].kind = "download" /\ req[r].url = Empty
        /\ req[r].result = "validation"
        /\ fs # {}

\* The height tags "<N>p".
HeightTags == {Q720p, Q1080p}

\* C8: the selector is "bestaudio/best" for audio, the height selector with
\* N for a height tag "<N>p", and "bestvideo+bestaudio/best" for an absent
\* quality; every accepted request has one.
C8_FormatSelection ==
    \A r \in Requests :
        Accepted(r) =>
            LET q == req[r].quality
                f == req[r].format_string
            IN  /\ f # None
                /\ q = Audio => f = <<"bestaudio/best">>
                /\ q \in HeightTags =>
                     f = <<"bestvideo[height<=">> \o SubSeq(q, 1, Len(q) - 1)
                            \o <<"]+bestaudio/bestvideo+bestaudio/best">>
                /\ q = None => f = <<"bestvideo+bestaudio/best">>

\* A request with quality 1080p has its selector, and the url was the
\* second one.
C8_Witness ==
    \E r \in Requests :
        Accepted(r) /\ req[r].quality = Q1080p /\ req[r].url = Url2

\* C9: the filename of a successful download is the title with each '/' and
\* '\' replaced by '_', followed by .mp3 for audio and by .mp4 otherwise,
\* and holds no separator.
C9_Filename ==
    \A r \in Requests :
        (Accepted(r) /\ req[r].result = "file" /\ req[r].title \notin {Absent, None})
        => LET t == req[r].title
               n == req[r].final_filename
               name == [i \in 1..Len(t) |->
                           IF t[i] \in {"/", "\\"} THEN "_" ELSE t[i]]
           IN  /\ n = name \o (IF req[r].quality = Audio THEN Mp3 ELSE Mp4)
               /\ \A i \in 1..Len(n) : n[i] \notin {"/", "\\"}

\* The spec's example: an audio download titled My/Cool\Song succeeded.
C9_Witness ==
    \E r \in Requests :
        /\ Accepted(r) /\ req[r].result = "file" /\ req[r].quality = Audio
        /\ req[r].title = <<"M", "y", "/", "C", "o", "o", "l", "\\", "S", "o", "n", "g">>
        /\ req[r].final_filename =
             <<"M", "y", "_", "C", "o", "o", "l", "_", "S", "o", "n", "g", ".", "m", "p", "3">>

\* An entry the public list keeps: its resolution is present, or its note
\* starts with "audio only".
C10_Kept(f) ==
    \/ f.resolution \notin {Absent, None}
    \/ (f.format_note \notin {Absent, None} /\ StartsWith(f.format_note, AudioOnly))

\* C10: whatever format list the engine returns, the info operation succeeds
\* and returns the kept entries, in order, their fields as the engine gave
\* them.
C10_InfoFilter ==
    \A r \in Requests :
        (req[r].kind = "info" /\ req[r].engineOk)
        => LET kept == SelectSeq(req[r].metadata, C10_Kept)
           IN  /\ req[r].status = 200
               /\ Len(req[r].formats) = Len(kept)
               /\ \A i \in 1..Len(kept) :
                    /\ req[r].formats[i].resolution = DictGet(kept[i].resolution)
                    /\ req[r].formats[i].note = DictGet(kept[i].format_note)
                    /\ req[r].formats[i].format_id = DictGet(kept[i].format_id)
                    /\ req[r].formats[i].ext = DictGet(kept[i].ext)
                    /\ req[r].formats[i].filesize = DictGet(kept[i].filesize)

\* C11: a failure to delete a temp file never changes what the caller
\* receives: once an os.remove of the request has failed, the caller still
\* gets the file response (success path) or the processing error that
\* carries the engine's message (failure path), never what the server
\* answers when an exception leaves the handler.
C11_DeleteFailureIsSilent ==
    \A r \in Requests :
        (Accepted(r) /\ req[r].removeFault)
        => \/ req[r].result = "file" /\ req[r].status = 200
           \/ /\ req[r].result = "processing"
              /\ Contains(req[r].text, req[r].error_msg)

\* C12: the info operation never changes the filesystem: no step of an info
\* request, whether it is rejected, succeeds or fails, creates or deletes a
\* file of the temp directory or takes a temp name; and when the engine
\* call of an info request fails the answer is the processing error (500)
\* whose text carries the engine's message.
C12_InfoLeavesFilesystem ==
    [][\A r \in Requests :
          (req'[r].kind = "info" /\ req'[r] # req[r])
          => /\ fs' = fs
             /\ nextId' = nextId
             /\ (req[r].pc = "info_engine" /\ ~req'[r].engineOk)
                => /\ req'[r].result = "processing"
                   /\ req'[r].status = 500
                   /\ Truthy(req'[r].error_msg)
                   /\ Contains(req'[r].text, req'[r].error_msg)]_vars

\* An info request failed in the engine while a file of a download was in
\* the temp directory, and the file is still there.
C12_Witness ==
    \E r \in Requests :
        /\ req[r].kind = "info" /\ req[r].result = "processing"
        /\ ~req[r].engineOk
        /\ Contains(req[r].text, BotMsg)
        /\ \E s \in Requests :
              /\ s < r /\ Accepted(s) /\ req[s].pc = "sending"
              /\ req[s].served \in fs

\* The transfer of the request's response is over: the client has read the
\* whole body or has gone.
TransferOver(r) == req[r].delivered \/ req[r].disconnected

\* C13: the steps of one download run in the order allocate, populate,
\* respond, cleanup: a file response is built only after the engine call on
\* the allocated path has returned; on the success path no os.remove of the
\* request happens before the transfer of its response is over; and when
\* the request is answered with the processing error, no file of the
\* request is left at that moment.
C13_DeleteAfterTransfer ==
    \A r \in Requests :
        Accepted(r)
        => /\ req[r].result = "file" => req[r].engineOk /\ req[r].engineCalls = 1
           /\ (req[r].result = "file" /\ req[r].removeCalls > 0)
              => TransferOver(r)
           /\ req[r].result = "processing" => ~Leaked(r)

\* A string without its final "p", when it ends with one.
WithoutTrailingP(q) ==
    IF Len(q) > 0 /\ q[Len(q)] = "p" THEN SubSeq(q, 1, Len(q) - 1) ELSE q

\* C14: for every present, non-empty quality other than "audio" the height
\* bound in the selector is the quality without its trailing "p"; every
\* other character, a "p" elsewhere included, is passed through unchanged.
C14_TrailingPOnly ==
    \A r \in Requests :
        (Accepted(r) /\ Truthy(req[r].quality) /\ req[r].quality # Audio)
        => req[r].format_string =
             <<"bestvideo[height<=">> \o WithoutTrailingP(req[r].quality)
                \o <<"]+bestaudio/bestvideo+bestaudio/best">>

\* C15: when the engine call succeeds and the metadata has no title (the
\* key is missing or its value is None), the download succeeds and the
\* suggested filename is "media.mp3" for audio and "media.mp4" otherwise.
C15_DefaultTitle ==
    \A r \in Requests :
        (Accepted(r) /\ req[r].engineOk /\ req[r].title \in {Absent, None})
        => /\ req[r].final_filename =
                Media \o (IF req[r].quality = Audio THEN Mp3 ELSE Mp4)
           /\ req[r].result \in {"none", "file"}
           /\ req[r].pc \notin {"except", "except_mp3"}

\* The engine call of the download raised and the request has been answered.
EngineFailureAnswered(r) ==
    /\ Accepted(r) /\ ~req[r].engineOk /\ req[r].error_msg # None
    /\ req[r].result # "none"

\* What the engine left behind, as extensions.
LeftKinds(r) == {SubSeq(p, Len(p) - 3, Len(p)) : p \in req[r].left}

\* C16: the content of an engine failure message never changes behaviour:
\* two failed downloads of one variant that differ only in the message
\* (same quality, same files left by the engine, no os.remove failing) get
\* the same server-error status, make the same number of deletes and leave
\* the same files; and every failed download is answered with status 500
\* and a text that contains the engine's message.
C16_MessageBlind ==
    /\ \A r, s \in Requests :
          ( /\ EngineFailureAnswered(r) /\ EngineFailureAnswered(s)
            /\ V(r) = V(s)
            /\ req[r].quality = req[s].quality
            /\ LeftKinds(r) = LeftKinds(s)
            /\ ~req[r].removeFault /\ ~req[s].removeFault )
          => /\ req[r].status = req[s].status
             /\ req[r].result = req[s].result
             /\ req[r].removeCalls = req[s].removeCalls
             /\ Leaked(r) = Leaked(s)
    /\ \A r \in Requests :
          EngineFailureAnswered(r)
          => /\ req[r].status = 500
             /\ Contains(req[r].text, req[r].error_msg)

\* C17: on every successful download the path served in the response is
\* the path registered for the cleanup, and it is the request's own path in
\* the temp directory: the allocated path when quality is not "audio", the
\* allocated path with its final ".mp4" replaced by ".mp3" when it is,
\* whatever the path of the temp directory.
C17_ServedIsRegistered ==
    \A r \in Requests :
        (Accepted(r) /\ req[r].served # None)
        => /\ req[r].registered
           /\ req[r].served = req[r].temp_filepath
           /\ StartsWith(req[r].served, TEMP_DIR \o Slash)
           /\ req[r].served =
                IF req[r].quality = Audio
                THEN SubSeq(req[r].alloc, 1, Len(req[r].alloc) - Len(Mp4)) \o Mp3
                ELSE req[r].alloc

\* The class of the result of a finished request.
ResultClass(r) ==
    IF req[r].result = "file" /\ (req[r].delivered \/ req[r].disconnected)
    THEN "file"
    ELSE IF req[r].result = "validation" THEN "validation" ELSE "processing"

\* Requests r and s were given the same input, engine outcome and client,
\* and no filesystem call of either failed for a reason of the environment.
SameCase(r, s) ==
    /\ req[r].kind = "download" /\ req[s].kind = "download"
    /\ req[r].url = req[s].url
    /\ req[r].quality = req[s].quality
    /\ req[r].engineOk = req[s].engineOk
    /\ req[r].title = req[s].title
    /\ LeftKinds(r) = LeftKinds(s)
    /\ req[r].disconnected = req[s].disconnected
    /\ ~req[r].removeFault /\ ~req[s].removeFault
    /\ ~req[r].openFault /\ ~req[s].openFault

\* C18: the two variants are equivalent on the core contract of the
\* download: a request served by app.py and one served by main.py, given the
\* same url, quality and engine outcome, have the same format selector, the
\* same result class (file, validation error, processing error), the same
\* suggested filename, and leave the same files of theirs in the temp
\* directory when both lifecycles have ended.
C18_VariantsAgree ==
    \A r, s \in Requests :
        ( /\ V(r) = "flask" /\ V(s) = "fastapi"
          /\ Done(r) /\ Done(s)
          /\ SameCase(r, s) )
        => /\ req[r].format_string = req[s].format_string
           /\ ResultClass(r) = ResultClass(s)
           /\ req[r].final_filename = req[s].final_filename
           /\ Leaked(r) = Leaked(s)

====
